---- MODULE Spec2Model ----
(***************************************************************************)
(* A model of the 6502 emulator core: address arithmetic (address.rs),     *)
(* the status register (registers.rs) and the decode / execute steps of    *)
(* the machine (machine.rs).                                               *)
(*                                                                         *)
(* Integer semantics.  The sources are written in the Rust of 2014/15      *)
(* (fail!, #[deriving], std::num::Int), where +, - on fixed-width integers *)
(* wrap in two's complement and `as` truncates; the unit test of           *)
(* add_with_carry relies on it (127 + 1 = -128, 1u8 + 255u8 = 0).  Every   *)
(* fixed-width operation below is written with its width.                  *)
(***************************************************************************)
EXTENDS Integers, Sequences, FiniteSets, TLC

VARIABLES
    registers,   \* Machine.registers : Registers
    memory,      \* Machine.memory, the cells a loader has written (all others read 0)
    last,        \* the last call made on the machine: what was called, what it read, what it returned
    cycles       \* the driver's count of decode steps since the program was loaded

vars == <<registers, memory, last, cycles>>

---------------------------------------------------------------------------
(* Bounds of the model *)

\* Byte samples lie within SampleRadius of 0, of the sign boundary 127/128 and of 255.
SampleRadius == 1

\* The driver decodes at most MaxCycles instructions per loaded program.
MaxCycles == 2

\* The longest run of add_with_carry calls followed from a fresh machine
MaxCalls == 3

ByteSamples ==
    {b \in 0..255 : \/ b <= SampleRadius
                    \/ (b >= 127 - SampleRadius /\ b <= 128 + SampleRadius)
                    \/ b >= 255 - SampleRadius}

---------------------------------------------------------------------------
(* Fixed-width integers *)

\* x as u8
AsU8(x) == x % 256

\* x as i8
AsI8(x) == IF x % 256 >= 128 THEN (x % 256) - 256 ELSE x % 256

\* x as u16
AsU16(x) == x % 65536

I32_MAX == 2147483647

\* x + y on i32, x in 0..65535 (a u16 widened) and y any i32.  The sum wraps at
\* 2^31; it is computed without leaving the 32-bit range.
WrappingAddI32(x, y) ==
    IF y > I32_MAX - x
    THEN ((y - I32_MAX) + x) - I32_MAX - 2
    ELSE x + y

RECURSIVE BitAnd(_, _)
BitAnd(x, y) ==
    IF x = 0 \/ y = 0 THEN 0
    ELSE (x % 2) * (y % 2) + 2 * BitAnd(x \div 2, y \div 2)

ShiftRight(x, n) == x \div (2 ^ n)

---------------------------------------------------------------------------
(* registers.rs: the status register *)

ps_negative           == 128
ps_overflow           == 64
ps_unused             == 32
ps_brk                == 16
ps_decimal_mode       == 8
ps_disable_interrupts == 4
ps_zero               == 2
ps_carry              == 1

\* flags Status: u8 { ... }: a Status value is the set of the flags whose bit is set
Flags == {ps_negative, ps_overflow, ps_unused, ps_brk,
          ps_decimal_mode, ps_disable_interrupts, ps_zero, ps_carry}

\* Status::empty()
Status_empty == {}

\* a | b, a & b and !a on Status
Status_or(a, b) == a \cup b

Status_and(a, b) == a \cap b

Status_not(a) == Flags \ a

\* self.contains(flags)
contains(self, flags) == Status_and(self, flags) = flags

StatusArgs_none ==
    [negative |-> FALSE, overflow |-> FALSE, unused |-> FALSE, brk |-> FALSE,
     decimal_mode |-> FALSE, disable_interrupts |-> FALSE, zero |-> FALSE,
     carry |-> FALSE]

Status_new(args) ==
    LET o0 == Status_empty
        o1 == IF args.negative           THEN Status_or(o0, {ps_negative})           ELSE o0
        o2 == IF args.overflow           THEN Status_or(o1, {ps_overflow})           ELSE o1
        o3 == IF args.unused             THEN Status_or(o2, {ps_unused})             ELSE o2
        o4 == IF args.brk                THEN Status_or(o3, {ps_brk})                ELSE o3
        o5 == IF args.decimal_mode       THEN Status_or(o4, {ps_decimal_mode})       ELSE o4
        o6 == IF args.disable_interrupts THEN Status_or(o5, {ps_disable_interrupts}) ELSE o5
        o7 == IF args.zero               THEN Status_or(o6, {ps_zero})               ELSE o6
        o8 == IF args.carry              THEN Status_or(o7, {ps_carry})              ELSE o7
    IN  o8

Status_default ==
    Status_new([negative |-> FALSE, overflow |-> FALSE, unused |-> TRUE,
                brk |-> FALSE, decimal_mode |-> FALSE,
                disable_interrupts |-> TRUE, zero |-> FALSE, carry |-> FALSE])

set_with_mask_Replace(self, mask, rhs) == rhs

set_with_mask(self, mask, rhs) == Status_or(Status_and(self, Status_not(mask)), rhs)

get_carry_WrongMask(self) == IF contains(self, {ps_carry, ps_decimal_mode}) THEN 1 ELSE 0

get_carry_AlwaysClear(self) == 0

get_carry(self) == IF contains(self, {ps_carry}) THEN 1 ELSE 0

-----
(* address.rs *)

Address_add_Saturating(lhs, rhs) ==
    IF WrappingAddI32(lhs, rhs) < 0 THEN 0
    ELSE IF WrappingAddI32(lhs, rhs) > 65535 THEN 65535
    ELSE WrappingAddI32(lhs, rhs)

\* impl Add<AddressDiff> for Address
Address_add(lhs, rhs) == AsU16(WrappingAddI32(lhs, rhs))

get_page_number(a) == AsU8(BitAnd(a, ShiftRight(65280, 8)))

get_offset(a) == AsU8(BitAnd(a, 255))

\* Address::new(low, high): the address with these low and high bytes
Address_new(low, high) == low + 256 * high

---------------------------------------------------------------------------
(* memory.rs (not among the sources): a 65536-byte array, zero after new() *)

STACK_ADDRESS_LO == 256

STACK_ADDRESS_HI == 511

Memory_new == [a \in {} |-> 0]

get_byte(mem, a) == IF a \in DOMAIN mem THEN mem[a] ELSE 0

---------------------------------------------------------------------------
(* registers.rs: the register file *)

to_address_FromHi(sp) == Address_add(STACK_ADDRESS_HI, AsU16(sp))

\* StackPointer::to_address
to_address(sp) == Address_add(STACK_ADDRESS_LO, AsU16(sp))

Registers_new ==
    [accumulator     |-> 0,
     index_x         |-> 0,
     index_y         |-> 0,
     stack_pointer   |-> get_offset(STACK_ADDRESS_HI),
     program_counter |-> 0,
     status          |-> Status_default]

---------------------------------------------------------------------------
(* machine.rs: instructions and their operands *)

Modes == {"Immediate", "ZeroPage", "ZeroPageX", "ZeroPageY", "Relative",
          "Absolute", "AbsoluteX", "AbsoluteY", "Indirect",
          "IndexedIndirectX", "IndirectIndexedY"}

\* A Value: its variant and the byte or address it carries
Value(mode, operand) == [mode |-> mode, operand |-> operand]

get_value_DefaultZero(value, mem) ==
    IF value.mode = "Immediate" THEN [outcome |-> "ok", byte |-> value.operand]
    ELSE IF value.mode = "Absolute"
    THEN [outcome |-> "ok", byte |-> get_byte(mem, value.operand)]
    ELSE [outcome |-> "ok", byte |-> 0]

\* Value::get_value(&self, memory): the byte returned ("ok"), or fail! ("panic")
get_value(value, mem) ==
    IF value.mode = "Immediate" THEN [outcome |-> "ok", byte |-> value.operand]
    ELSE IF value.mode = "Absolute"
    THEN [outcome |-> "ok", byte |-> get_byte(mem, value.operand)]
    ELSE [outcome |-> "panic", byte |-> 0]

NOP == [opcode |-> "NOP", mode |-> "None", operand |-> 0]

ADC(mode, operand) == [opcode |-> "ADC", mode |-> mode, operand |-> operand]

NoInstruction == [opcode |-> "None", mode |-> "None", operand |-> 0]

---------------------------------------------------------------------------
(* machine.rs: the decoder *)

peek_pc_byte(regs, mem) == get_byte(mem, regs.program_counter)

pop_pc_byte_Peek(regs, mem) ==
    [byte |-> peek_pc_byte(regs, mem), regs |-> regs]

pop_pc_byte_NoWrap(regs, mem) ==
    [byte |-> peek_pc_byte(regs, mem),
     regs |-> [regs EXCEPT !.program_counter = IF @ = 65535 THEN @ ELSE @ + 1]]

pop_pc_byte_MovesStackPointer(regs, mem) ==
    [byte |-> peek_pc_byte(regs, mem),
     regs |-> [regs EXCEPT !.program_counter = Address_add(@, 1),
                           !.stack_pointer = AsU8(@ + 1)]]

\* The byte returned and the registers after the call
pop_pc_byte(regs, mem) ==
    [byte |-> peek_pc_byte(regs, mem),
     regs |-> [regs EXCEPT !.program_counter = Address_add(@, 1)]]

pop_pc_instruction_BigEndian(regs, mem) ==
    LET p1 == pop_pc_byte(regs, mem)
    IN  IF p1.byte = 105
        THEN LET p2 == pop_pc_byte(p1.regs, mem)
             IN  [instr |-> ADC("Immediate", p2.byte), regs |-> p2.regs]
        ELSE IF p1.byte = 109
        THEN LET p2 == pop_pc_byte(p1.regs, mem)
                 p3 == pop_pc_byte(p2.regs, mem)
             IN  [instr |-> ADC("Absolute", Address_new(p3.byte, p2.byte)),
                  regs |-> p3.regs]
        ELSE [instr |-> NOP, regs |-> p1.regs]

pop_pc_instruction_NopTakesOperand(regs, mem) ==
    LET p1 == pop_pc_byte(regs, mem)
    IN  IF p1.byte = 105
        THEN LET p2 == pop_pc_byte(p1.regs, mem)
             IN  [instr |-> ADC("Immediate", p2.byte), regs |-> p2.regs]
        ELSE IF p1.byte = 109
        THEN LET p2 == pop_pc_byte(p1.regs, mem)
                 p3 == pop_pc_byte(p2.regs, mem)
             IN  [instr |-> ADC("Absolute", Address_new(p2.byte, p3.byte)),
                  regs |-> p3.regs]
        ELSE [instr |-> NOP, regs |-> pop_pc_byte(p1.regs, mem).regs]

\* The instruction returned and the registers after the call
pop_pc_instruction(regs, mem) ==
    LET p1 == pop_pc_byte(regs, mem)
        op_code == p1.byte
    IN  IF op_code = 105                                     \* 0x69
        THEN LET p2 == pop_pc_byte(p1.regs, mem)
             IN  [instr |-> ADC("Immediate", p2.byte), regs |-> p2.regs]
        ELSE IF op_code = 109                                \* 0x6D
        THEN LET p2 == pop_pc_byte(p1.regs, mem)
                 p3 == pop_pc_byte(p2.regs, mem)
                 address_low_byte  == p2.byte
                 address_high_byte == p3.byte
                 address == Address_new(address_low_byte, address_high_byte)
             IN  [instr |-> ADC("Absolute", address), regs |-> p3.regs]
        ELSE [instr |-> NOP, regs |-> p1.regs]

---------------------------------------------------------------------------
(* machine.rs: add_with_carry *)

a_after_NoCarry(a_before, c_before, value) == AsI8(a_before + value)

\* a_before + c_before + value on i8: two wrapping additions
a_after(a_before, c_before, value) == AsI8(AsI8(a_before + c_before) + value)

did_carry(a0, a1) == AsU8(a1) < AsU8(a0)

is_zero_NonPositive(a1) == a1 <= 0

is_zero(a1) == a1 = 0

is_negative_OrZero(a1) == a1 <= 0

is_negative(a1) == a1 < 0

did_overflow(a0, value, a1) ==
    \/ (a0 < 0 /\ value < 0 /\ a1 >= 0)
    \/ (a0 > 0 /\ value > 0 /\ a1 <= 0)

\* The machine's registers after add_with_carry(value), and whether the call
\* returned ("ok") or its debug assertion failed ("panic").
add_with_carry(regs, value) ==
    LET a0 == regs.accumulator
        c0 == get_carry(regs.status)
        a1 == a_after(a0, c0, value)
        assert_eq == AsU8(a1) = AsU8(AsU8(AsU8(a0) + AsU8(c0)) + AsU8(value))
        mask == Status_or(Status_or(Status_or({ps_carry}, {ps_zero}), {ps_negative}), {ps_overflow})
        new  == Status_new([StatusArgs_none EXCEPT
                              !.carry    = did_carry(a0, a1),
                              !.zero     = is_zero(a1),
                              !.negative = is_negative(a1),
                              !.overflow = did_overflow(a0, value, a1)])
    IN  IF ~assert_eq
        THEN [regs |-> regs, outcome |-> "panic"]
        ELSE [regs |-> [regs EXCEPT !.status = set_with_mask(regs.status, mask, new),
                                    !.accumulator = a1],
              outcome |-> "ok"]

---------------------------------------------------------------------------
(* The record of the last call *)

Call(op, in, instr, ret, outcome, stdout) ==
    [op |-> op, in |-> in, instr |-> instr, ret |-> ret,
     outcome |-> outcome, stdout |-> stdout]

Running == last.outcome # "panic"

---------------------------------------------------------------------------
(* Operations of the machine *)

\* Machine::new()
Init ==
    /\ registers = Registers_new
    /\ memory = Memory_new
    /\ last = Call("new", <<>>, NoInstruction, <<>>, "ok", "")
    /\ cycles = 0

Reset_KeepsMemory ==
    /\ Running
    /\ registers' = Registers_new
    /\ memory' = memory
    /\ last' = Call("reset", <<registers.accumulator, registers.program_counter,
                                Cardinality(DOMAIN memory)>>,
                    NoInstruction, <<>>, "ok", "")
    /\ cycles' = 0

\* Machine::reset(); last.in = <<accumulator, program counter, number of loaded
\* memory cells>> before the call
Reset ==
    /\ Running
    /\ registers' = Registers_new
    /\ memory' = Memory_new
    /\ last' = Call("reset", <<registers.accumulator, registers.program_counter,
                                Cardinality(DOMAIN memory)>>,
                    NoInstruction, <<>>, "ok", "")
    /\ cycles' = 0

\* Machine::add_with_carry(value), value an i8
AddWithCarry(value) ==
    /\ Running
    /\ LET r == add_with_carry(registers, value)
       IN  /\ registers' = r.regs
           /\ last' = Call("add_with_carry",
                           <<registers.accumulator, get_carry(registers.status), value>>,
                           NoInstruction, <<>>, r.outcome, "")
    /\ UNCHANGED <<memory, cycles>>

execute_instruction_NopAddsZero(regs, mem, instruction) ==
    IF instruction.opcode = "ADC" /\ instruction.mode = "Immediate"
    THEN LET value == AsI8(instruction.operand)
             r == add_with_carry(regs, value)
         IN  [regs |-> r.regs, in |-> <<regs.accumulator, get_carry(regs.status), value>>,
              outcome |-> r.outcome, stdout |-> "executing add with carry"]
    ELSE IF instruction.opcode = "ADC" /\ instruction.mode = "Absolute"
    THEN LET value == AsI8(get_byte(mem, instruction.operand))
             r == add_with_carry(regs, value)
         IN  [regs |-> r.regs, in |-> <<regs.accumulator, get_carry(regs.status), value>>,
              outcome |-> r.outcome, stdout |-> ""]
    ELSE IF instruction.opcode = "NOP"
    THEN [regs |-> add_with_carry(regs, 0).regs, in |-> <<>>, outcome |-> "ok",
          stdout |-> "nop instr"]
    ELSE [regs |-> regs, in |-> <<>>, outcome |-> "ok",
          stdout |-> "attempting to execute unimplemented instruction"]

\* The registers after execute_instruction(instruction), what add_with_carry
\* read (<<a0, carry-in, operand>>, if it ran), whether the call returned, and
\* the line it printed
execute_instruction(regs, mem, instruction) ==
    IF instruction.opcode = "ADC" /\ instruction.mode = "Immediate"
    THEN LET value == AsI8(instruction.operand)
             r == add_with_carry(regs, value)
         IN  [regs |-> r.regs, in |-> <<regs.accumulator, get_carry(regs.status), value>>,
              outcome |-> r.outcome, stdout |-> "executing add with carry"]
    ELSE IF instruction.opcode = "ADC" /\ instruction.mode = "Absolute"
    THEN LET value == AsI8(get_byte(mem, instruction.operand))
             r == add_with_carry(regs, value)
         IN  [regs |-> r.regs, in |-> <<regs.accumulator, get_carry(regs.status), value>>,
              outcome |-> r.outcome, stdout |-> ""]
    ELSE IF instruction.opcode = "NOP"
    THEN [regs |-> regs, in |-> <<>>, outcome |-> "ok", stdout |-> "nop instr"]
    ELSE [regs |-> regs, in |-> <<>>, outcome |-> "ok",
          stdout |-> "attempting to execute unimplemented instruction"]

\* Machine::execute_instruction(instruction)
ExecuteInstruction(instruction) ==
    /\ Running
    /\ LET r == execute_instruction(registers, memory, instruction)
       IN  /\ registers' = r.regs
           /\ last' = Call("execute_instruction", r.in, instruction, <<>>,
                           r.outcome, r.stdout)
    /\ UNCHANGED <<memory, cycles>>

---------------------------------------------------------------------------
(* The driver: loading memory and writing flags through the public fields *)

\* A table of operand bytes: the cell at 0x1000 + b holds b.
DataImage == [a \in {4096 + b : b \in {1, 127, 128, 255}} |-> a - 4096]

LoadData ==
    /\ Running
    /\ memory = Memory_new
    /\ memory' = DataImage
    /\ last' = Call("load", <<>>, NoInstruction, <<>>, "ok", "")
    /\ UNCHANGED <<registers, cycles>>

DriverFlags == {ps_carry, ps_decimal_mode}

\* machine.registers.status.remove(flag)
StatusRemove(flag) ==
    /\ Running
    /\ registers' = [registers EXCEPT !.status = Status_and(@, Status_not({flag}))]
    /\ last' = Call("status.remove", <<flag>>, NoInstruction, <<>>, "ok", "")
    /\ UNCHANGED <<memory, cycles>>

\* machine.registers.status.insert(flag)
StatusInsert(flag) ==
    /\ Running
    /\ registers' = [registers EXCEPT !.status = Status_or(@, {flag})]
    /\ last' = Call("status.insert", <<flag>>, NoInstruction, <<>>, "ok", "")
    /\ UNCHANGED <<memory, cycles>>

\* The operands add_with_carry is called with
Operands == {AsI8(b) : b \in ByteSamples}

\* The instructions execute_instruction is called with
Instructions ==
    {NOP}
    \cup {ADC("Immediate", b) : b \in ByteSamples}
    \cup {ADC("Absolute", a) : a \in DOMAIN DataImage \cup {0}}
    \cup {ADC("ZeroPage", 1)}

Next ==
    \/ LoadData
    \/ \E value \in Operands : AddWithCarry(value)
    \/ \E instruction \in Instructions : ExecuteInstruction(instruction)
    \/ \E flag \in DriverFlags : StatusRemove(flag)
    \/ \E flag \in DriverFlags : StatusInsert(flag)
    \/ Reset

Spec == Init /\ [][Next]_vars

---------------------------------------------------------------------------
(* The fetch-execute cycle on a loaded program, one step at a time *)

\* Machine::pop_pc_instruction(); last.in = <<program counter before>>,
\* last.instr = the instruction returned
PopPcInstruction ==
    /\ Running
    /\ cycles < MaxCycles
    /\ LET r == pop_pc_instruction(registers, memory)
       IN  /\ registers' = r.regs
           /\ last' = Call("pop_pc_instruction", <<registers.program_counter>>,
                           r.instr, <<>>, "ok", "")
    /\ cycles' = cycles + 1
    /\ UNCHANGED memory

\* Machine::peek_pc_byte(); last.in = <<program counter before>>, last.ret = <<byte>>
PeekPcByte ==
    /\ Running
    /\ last' = Call("peek_pc_byte", <<registers.program_counter>>, NoInstruction,
                    <<peek_pc_byte(registers, memory)>>, "ok", "")
    /\ UNCHANGED <<registers, memory, cycles>>

\* Machine::pop_pc_byte(); last.in = <<program counter before>>, last.ret = <<byte>>
PopPcByte ==
    /\ Running
    /\ cycles < MaxCycles
    /\ LET r == pop_pc_byte(registers, memory)
       IN  /\ registers' = r.regs
           /\ last' = Call("pop_pc_byte", <<registers.program_counter>>, NoInstruction,
                           <<r.byte>>, "ok", "")
    /\ cycles' = cycles + 1
    /\ UNCHANGED memory

\* execute_instruction on the instruction just decoded
ExecuteDecoded ==
    /\ last.op = "pop_pc_instruction"
    /\ ExecuteInstruction(last.instr)

StartSamples == {0, 255, 65534, 65535}

OpcodeSamples == ByteSamples \cup {105, 109, 234}      \* 0x69, 0x6D, 0xEA

OperandSamples == ByteSamples \cup {5, 16, 105}

HighByteSamples == {0, 16, 105, 255}

\* The loader writes a three-byte program at start and sets the program counter to it.
LoadProgram ==
    /\ Running
    /\ memory = Memory_new
    /\ \E start \in StartSamples, op_code \in 0..255,
          b1 \in OperandSamples, b2 \in HighByteSamples :
        \* every opcode with the operand bytes 0x05 0x10, the sampled opcodes with all
        /\ op_code \in OpcodeSamples \/ (b1 = 5 /\ b2 = 16)
        /\ memory' = [a \in {start, (start + 1) % 65536, (start + 2) % 65536} |->
                        IF a = start THEN op_code
                        ELSE IF a = (start + 1) % 65536 THEN b1 ELSE b2]
        /\ registers' = [registers EXCEPT !.program_counter = start]
        /\ last' = Call("load", <<start>>, NoInstruction, <<>>, "ok", "")
    /\ cycles' = 0

NextDecode ==
    \/ LoadProgram
    \/ PopPcInstruction
    \/ PeekPcByte
    \/ PopPcByte
    \/ ExecuteDecoded
    \/ Reset

SpecDecode == Init /\ [][NextDecode]_vars

---------------------------------------------------------------------------
(* The pure functions of address.rs and registers.rs, each called once on  *)
(* arguments drawn by the initial state                                    *)

AddressSamples == {lo + 256 * hi : lo \in ByteSamples, hi \in ByteSamples}

\* AddressDiff is an i32: small steps, whole pages, whole address spaces, and
\* the two ends of the i32 range
AddressDiffSamples ==
    {s * m + e : s \in {-1, 1}, m \in {0, 256, 65536}, e \in (-SampleRadius)..SampleRadius}
    \cup {I32_MAX - e : e \in 0..SampleRadius}
    \cup {(-I32_MAX - 1) + e : e \in 0..SampleRadius}

StatusSamples ==
    {f \in SUBSET Flags : Cardinality(f) <= 1 \/ Cardinality(f) >= 7}
    \cup {Status_default, {ps_carry, ps_zero, ps_negative, ps_overflow}}

\* Every variant of Value: with the sampled bytes, and for the variants that
\* carry an address with loaded and unloaded addresses
ValueSamples ==
    {Value(m, b) : m \in Modes, b \in ByteSamples}
    \cup {Value(m, a) : m \in {"Absolute", "AbsoluteX", "AbsoluteY", "Indirect"},
                        a \in DOMAIN DataImage \cup {4096, 65535}}

PendingCalls ==
    {Call("set_with_mask", <<self, mask, rhs>>, NoInstruction, <<>>, "pending", "") :
        self \in StatusSamples, mask \in StatusSamples, rhs \in StatusSamples}
    \cup {Call("Address_add", <<a, d>>, NoInstruction, <<>>, "pending", "") :
        a \in AddressSamples, d \in AddressDiffSamples}
    \cup {Call("get_page_number", <<a>>, NoInstruction, <<>>, "pending", "") :
        a \in AddressSamples}
    \cup {Call("get_offset", <<a>>, NoInstruction, <<>>, "pending", "") :
        a \in AddressSamples}
    \cup {Call("to_address", <<sp>>, NoInstruction, <<>>, "pending", "") :
        sp \in 0..255}
    \cup {Call("get_value", <<v.mode, v.operand>>, NoInstruction, <<>>, "pending", "") :
        v \in ValueSamples}

InitPure ==
    /\ registers = Registers_new
    /\ cycles = 0
    /\ last \in PendingCalls
    /\ memory \in IF last.op = "get_value" THEN {Memory_new, DataImage} ELSE {Memory_new}

Pending(op) == last.op = op /\ last.outcome = "pending"

Returned(op) == last.op = op /\ last.outcome = "ok"

Return(value) ==
    /\ last' = [last EXCEPT !.ret = <<value>>, !.outcome = "ok"]
    /\ UNCHANGED <<registers, memory, cycles>>

Call_set_with_mask ==
    /\ Pending("set_with_mask")
    /\ Return(set_with_mask(last.in[1], last.in[2], last.in[3]))

Call_Address_add ==
    /\ Pending("Address_add")
    /\ Return(Address_add(last.in[1], last.in[2]))

Call_get_page_number ==
    /\ Pending("get_page_number")
    /\ Return(get_page_number(last.in[1]))

Call_get_offset ==
    /\ Pending("get_offset")
    /\ Return(get_offset(last.in[1]))

Call_to_address ==
    /\ Pending("to_address")
    /\ Return(to_address(last.in[1]))

Call_get_value ==
    /\ Pending("get_value")
    /\ LET r == get_value(Value(last.in[1], last.in[2]), memory)
       IN  last' = [last EXCEPT !.ret = IF r.outcome = "ok" THEN <<r.byte>> ELSE <<>>,
                                !.outcome = r.outcome]
    /\ UNCHANGED <<registers, memory, cycles>>

NextPure ==
    \/ Call_set_with_mask
    \/ Call_Address_add
    \/ Call_get_page_number
    \/ Call_get_offset
    \/ Call_to_address
    \/ Call_get_value

SpecPure == InitPure /\ [][NextPure]_vars

---------------------------------------------------------------------------
(* What the claims speak of *)

\* The last call ran add_with_carry: directly, or by executing ADC with an
\* Immediate or Absolute operand.  Then last.in = <<a0, carry-in, operand>>.
RanAddWithCarry ==
    \/ last.op = "add_with_carry"
    \/ /\ last.op = "execute_instruction"
       /\ last.instr.opcode = "ADC"
       /\ last.instr.mode \in {"Immediate", "Absolute"}

\* A byte read as a signed 8-bit number, and a signed 8-bit number read as a byte
Signed(b) == IF b >= 128 THEN b - 256 ELSE b

Unsigned(x) == IF x < 0 THEN x + 256 ELSE x

\* An integer in -129..255 brought into -128..127 by 8-bit two's complement wraparound
Wrapped8(s) == IF s > 127 THEN s - 256 ELSE IF s < -128 THEN s + 256 ELSE s

NonAluFlags == {ps_unused, ps_brk, ps_decimal_mode, ps_disable_interrupts}

---------------------------------------------------------------------------
(* Claims about add_with_carry, checked under Spec *)

\* C1: executing ADC (Immediate(b), or Absolute(addr) with operand memory[addr],
\* the byte read as signed 8-bit), or calling add_with_carry, returns without
\* aborting (the redundant unsigned check does not fail) and leaves the
\* accumulator at a0 + c + operand wrapped to 8 bits two's complement.
C1_AdcResult ==
    RanAddWithCarry =>
        /\ last.outcome = "ok"
        /\ registers.accumulator = Wrapped8(last.in[1] + last.in[2] + last.in[3])
        /\ (last.op = "execute_instruction" /\ last.instr.mode = "Immediate"
              => last.in[3] = Signed(last.instr.operand))
        /\ (last.op = "execute_instruction" /\ last.instr.mode = "Absolute"
              => last.in[3] = Signed(get_byte(memory, last.instr.operand)))

\* C1 witness: ADC Absolute on a loaded cell holding a negative byte, with carry-in 1,
\* whose signed sum leaves the 8-bit range.
C1_Witness ==
    /\ last.op = "execute_instruction"
    /\ last.instr.mode = "Absolute"
    /\ last.instr.operand \in DOMAIN memory
    /\ last.in[2] = 1
    /\ last.in[3] < 0
    /\ last.in[1] + last.in[2] + last.in[3] < -128
    /\ last.outcome = "ok"

\* C2: after add_with_carry the carry flag is the hardware carry: it is set
\* exactly when unsigned(a0) + c + unsigned(operand) > 255.
C2_CarryIsHardwareCarry ==
    RanAddWithCarry /\ last.outcome = "ok" =>
        (ps_carry \in registers.status
           <=> Unsigned(last.in[1]) + last.in[2] + Unsigned(last.in[3]) > 255)

\* C3: after add_with_carry the overflow flag is set exactly when a0 and the
\* operand have the same sign (both negative, or both non-negative) and the
\* sign of the result differs from theirs.
C3_OverflowIsSignedOverflow ==
    RanAddWithCarry /\ last.outcome = "ok" =>
        (ps_overflow \in registers.status
           <=> /\ (last.in[1] < 0) = (last.in[3] < 0)
               /\ (registers.accumulator < 0) # (last.in[1] < 0))

\* C4: after add_with_carry the zero flag is set iff the new accumulator is 0,
\* and the negative flag is set iff the new accumulator is negative.
C4_ZeroNegative ==
    RanAddWithCarry /\ last.outcome = "ok" =>
        /\ (ps_zero \in registers.status <=> registers.accumulator = 0)
        /\ (ps_negative \in registers.status <=> registers.accumulator < 0)

\* C4 witness: an addition that turned a negative accumulator into 0, and so
\* had to clear the negative flag and set the zero flag.
C4_Witness ==
    /\ RanAddWithCarry
    /\ last.in[1] < 0
    /\ registers.accumulator = 0
    /\ ps_zero \in registers.status

\* C5: add_with_carry (and so executing ADC) changes only the accumulator and
\* the flags carry, zero, negative and overflow: the unused, break, decimal-mode
\* and interrupt-disable flags, X, Y, the stack pointer, the program counter
\* and memory are as before.
C5_Frame ==
    [][ RanAddWithCarry' =>
          /\ \A f \in NonAluFlags : (f \in registers'.status <=> f \in registers.status)
          /\ registers'.index_x = registers.index_x
          /\ registers'.index_y = registers.index_y
          /\ registers'.stack_pointer = registers.stack_pointer
          /\ registers'.program_counter = registers.program_counter
          /\ memory' = memory ]_vars

\* C5 witness: add_with_carry has changed the accumulator and set the carry
\* flag on a machine with loaded memory and the decimal-mode flag set.
C5_Witness ==
    /\ RanAddWithCarry
    /\ registers.accumulator # last.in[1]
    /\ ps_carry \in registers.status
    /\ {ps_decimal_mode, ps_unused, ps_disable_interrupts} \subseteq registers.status
    /\ memory # Memory_new

---------------------------------------------------------------------------
(* Claims about the pure functions, checked under SpecPure *)

\* C6: set_with_mask(mask, new) replaces exactly the flags in mask by those of
\* new and leaves every flag outside mask as it was, for every status, mask
\* and new value, a new value with flags outside mask included.
C6_SetWithMaskExact ==
    Returned("set_with_mask") =>
        \A f \in Flags :
            f \in last.ret[1] <=> IF f \in last.in[2] THEN f \in last.in[3]
                                                     ELSE f \in last.in[1]

\* C7: (a + d) is (a + d) mod 65536, taken as non-negative, for every Address a
\* and every AddressDiff d; the addition does not fail, and wraps at both ends
\* (0xFFFF + 1 = 0x0000, 0x0000 + (-1) = 0xFFFF).  (a + d) mod 65536 is written
\* (a + (d mod 65536)) mod 65536, which stays within 32 bits.
C7_AddressAddWraps ==
    Returned("Address_add") =>
        /\ last.ret[1] \in 0..65535
        /\ last.ret[1] = (last.in[1] + (last.in[2] % 65536)) % 65536
        /\ (last.in[1] = 65535 /\ last.in[2] = 1 => last.ret[1] = 0)
        /\ (last.in[1] = 0 /\ last.in[2] = -1 => last.ret[1] = 65535)

\* C7 witness: address 0 moved back by one
C7_Witness ==
    /\ Returned("Address_add")
    /\ last.in[1] = 0
    /\ last.in[2] = -1
    /\ last.ret[1] = 65535

\* C8: get_page_number(a) is the high byte of a (a div 256) and get_offset(a)
\* is the low byte of a (a mod 256).
C8_PageAndOffset ==
    /\ Returned("get_page_number") => last.ret[1] = last.in[1] \div 256
    /\ Returned("get_offset") => last.ret[1] = last.in[1] % 256

\* C9: Address::new(get_offset(a), get_page_number(a)) gives back a.
C9_PageOffsetRoundTrip ==
    Returned("get_page_number") =>
        Address_new(get_offset(last.in[1]), last.ret[1]) = last.in[1]

---------------------------------------------------------------------------
(* Claims about the decoder, checked under SpecDecode *)

\* C10: with memory[p] = 0x69 at the program counter p, pop_pc_instruction
\* returns ADC with an Immediate operand equal to memory[p+1] and leaves the
\* program counter at p + 2 (mod 65536); bytes [0x69, 0x05] at program counter
\* 0 give ADC Immediate(5) and program counter 2.
C10_DecodeImmediate ==
    last.op = "pop_pc_instruction" /\ get_byte(memory, last.in[1]) = 105 =>
        /\ last.instr.opcode = "ADC"
        /\ last.instr.mode = "Immediate"
        /\ last.instr.operand = get_byte(memory, (last.in[1] + 1) % 65536)
        /\ registers.program_counter = (last.in[1] + 2) % 65536
        /\ (last.in[1] = 0 /\ get_byte(memory, 1) = 5
              => last.instr.operand = 5 /\ registers.program_counter = 2)

\* C10 witness: bytes [0x69, 0x05] decoded at program counter 0
C10_Witness ==
    /\ last.op = "pop_pc_instruction"
    /\ last.in[1] = 0
    /\ get_byte(memory, 0) = 105
    /\ get_byte(memory, 1) = 5
    /\ last.instr = ADC("Immediate", 5)
    /\ registers.program_counter = 2

\* C11: with memory[p] = 0x6D at the program counter p, pop_pc_instruction
\* returns ADC with an Absolute operand whose address is
\* memory[p+1] + 256 * memory[p+2] (low byte first) and leaves the program
\* counter at p + 3 (mod 65536); bytes [0x6D, 0x00, 0x10] give address 0x1000.
C11_DecodeAbsolute ==
    last.op = "pop_pc_instruction" /\ get_byte(memory, last.in[1]) = 109 =>
        /\ last.instr.opcode = "ADC"
        /\ last.instr.mode = "Absolute"
        /\ last.instr.operand = get_byte(memory, (last.in[1] + 1) % 65536)
                                + 256 * get_byte(memory, (last.in[1] + 2) % 65536)
        /\ registers.program_counter = (last.in[1] + 3) % 65536
        /\ (get_byte(memory, (last.in[1] + 1) % 65536) = 0
              /\ get_byte(memory, (last.in[1] + 2) % 65536) = 16
              => last.instr.operand = 4096)

\* C11 witness: bytes [0x6D, 0x00, 0x10] decoded at program counter 0
C11_Witness ==
    /\ last.op = "pop_pc_instruction"
    /\ last.in[1] = 0
    /\ get_byte(memory, 0) = 109
    /\ get_byte(memory, 1) = 0
    /\ get_byte(memory, 2) = 16
    /\ last.instr = ADC("Absolute", 4096)
    /\ registers.program_counter = 3

\* C12: for every opcode byte other than 0x69 and 0x6D, pop_pc_instruction
\* returns NOP and advances the program counter by exactly one, consuming no
\* operand byte; the result for an undefined opcode is the one for 0xEA.
C12_OtherOpcodesAreNop ==
    last.op = "pop_pc_instruction" /\ get_byte(memory, last.in[1]) \notin {105, 109} =>
        /\ last.instr = [opcode |-> "NOP", mode |-> "None", operand |-> 0]
        /\ registers.program_counter = (last.in[1] + 1) % 65536

\* C12 witness: an opcode that is neither implemented nor the hardware NOP
\* (0x6C), followed by operand bytes, decoded to NOP
C12_Witness ==
    /\ last.op = "pop_pc_instruction"
    /\ get_byte(memory, last.in[1]) = 108
    /\ get_byte(memory, (last.in[1] + 1) % 65536) = 5
    /\ last.instr.opcode = "NOP"
    /\ registers.program_counter = (last.in[1] + 1) % 65536

\* C19: peek_pc_byte returns memory[PC] and leaves the program counter alone;
\* pop_pc_byte returns that byte and sets PC to (PC + 1) mod 65536; an
\* instruction at the top of the address space takes its operand bytes from
\* the bottom (2 bytes at 0xFFFF: operand at 0x0000; 3 bytes at 0xFFFF: operands
\* at 0x0000, 0x0001; 3 bytes at 0xFFFE: operands at 0xFFFF, 0x0000) and decoding
\* ends with a wrapped program counter, not with a failure.
C19_FetchWraps ==
    /\ last.op = "peek_pc_byte" =>
         /\ last.ret = <<get_byte(memory, last.in[1])>>
         /\ registers.program_counter = last.in[1]
    /\ last.op = "pop_pc_byte" =>
         /\ last.ret = <<get_byte(memory, last.in[1])>>
         /\ registers.program_counter = (IF last.in[1] = 65535 THEN 0 ELSE last.in[1] + 1)
    /\ last.op = "pop_pc_instruction" => last.outcome = "ok"
    /\ last.op = "pop_pc_instruction" /\ last.in[1] = 65535
                                      /\ get_byte(memory, 65535) = 105 =>
         /\ last.instr.operand = get_byte(memory, 0)
         /\ registers.program_counter = 1
    /\ last.op = "pop_pc_instruction" /\ last.in[1] = 65535
                                      /\ get_byte(memory, 65535) = 109 =>
         /\ last.instr.operand = get_byte(memory, 0) + 256 * get_byte(memory, 1)
         /\ registers.program_counter = 2
    /\ last.op = "pop_pc_instruction" /\ last.in[1] = 65534
                                      /\ get_byte(memory, 65534) = 109 =>
         /\ last.instr.operand = get_byte(memory, 65535) + 256 * get_byte(memory, 0)
         /\ registers.program_counter = 1

\* C19 witness: a three-byte instruction decoded at 0xFFFF, its operand bytes
\* (both non-zero) taken from 0x0000 and 0x0001
C19_Witness ==
    /\ last.op = "pop_pc_instruction"
    /\ last.in[1] = 65535
    /\ get_byte(memory, 65535) = 109
    /\ get_byte(memory, 0) = 5
    /\ get_byte(memory, 1) = 16
    /\ last.instr = ADC("Absolute", 4101)
    /\ registers.program_counter = 2

\* C20: pop_pc_instruction writes the program counter and nothing else: the
\* accumulator, X, Y, the stack pointer, the status flags and memory are as before.
C20_DecodeFrame ==
    [][ last'.op = "pop_pc_instruction" =>
          /\ registers'.accumulator = registers.accumulator
          /\ registers'.index_x = registers.index_x
          /\ registers'.index_y = registers.index_y
          /\ registers'.stack_pointer = registers.stack_pointer
          /\ registers'.status = registers.status
          /\ memory' = memory ]_vars

\* C20 witness: a decode step that moved the program counter on a machine whose
\* accumulator and flags an executed ADC had changed
C20_Witness ==
    /\ last.op = "pop_pc_instruction"
    /\ registers.program_counter # last.in[1]
    /\ registers.accumulator # 0
    /\ registers.status # Status_default
    /\ memory # Memory_new

\* C13: reset() leaves the machine in the state new() produces, whatever came
\* before: accumulator = X = Y = 0, stack pointer = 0xFF, program counter = 0,
\* status = unused and interrupt-disable only, and memory all zero.
C13_ResetIsPowerOn ==
    last.op = "reset" =>
        /\ registers.accumulator = 0
        /\ registers.index_x = 0
        /\ registers.index_y = 0
        /\ registers.stack_pointer = 255
        /\ registers.program_counter = 0
        /\ registers.status = {ps_unused, ps_disable_interrupts}
        /\ \A a \in 0..65535 : get_byte(memory, a) = 0

\* C13 witness: a reset of a machine with a loaded program, a moved program
\* counter and a non-zero accumulator
C13_Witness ==
    /\ last.op = "reset"
    /\ last.in[1] # 0
    /\ last.in[2] # 0
    /\ last.in[3] > 0

---------------------------------------------------------------------------
(* Further claims about pure functions, checked under SpecPure *)

\* C14: for every stack pointer value sp, to_address(sp) is 0x0100 + sp, inside
\* the stack page 0x0100..0x01FF; 0xFF maps to 0x01FF, 0x00 to 0x0100, and the
\* power-on stack pointer to 0x01FF.
C14_StackPointerAddress ==
    Returned("to_address") =>
        /\ last.ret[1] = 256 + last.in[1]
        /\ last.ret[1] \in 256..511
        /\ (last.in[1] = 255 => last.ret[1] = 511)
        /\ (last.in[1] = 0 => last.ret[1] = 256)
        /\ (last.in[1] = registers.stack_pointer => last.ret[1] = 511)

\* C14 witness: to_address called on the power-on stack pointer
C14_Witness ==
    /\ Returned("to_address")
    /\ last.in[1] = registers.stack_pointer
    /\ last.in[1] = 255
    /\ last.ret[1] = 511

\* C15: get_value returns the embedded byte for Immediate whatever memory
\* holds, returns memory[address] for Absolute, and for every other variant
\* fails instead of returning a byte; it does not modify memory.
C15_GetValue ==
    [][ last'.op = "get_value" /\ last'.outcome # "pending" =>
          /\ memory' = memory
          /\ (last'.in[1] = "Immediate" =>
                last'.outcome = "ok" /\ last'.ret = <<last'.in[2]>>)
          /\ (last'.in[1] = "Absolute" =>
                last'.outcome = "ok" /\ last'.ret = <<get_byte(memory, last'.in[2])>>)
          /\ (last'.in[1] \notin {"Immediate", "Absolute"} =>
                last'.outcome = "panic" /\ last'.ret = <<>>) ]_vars

\* C15 witness: get_value has failed on an Indirect operand whose address is a
\* loaded memory cell
C15_Witness ==
    /\ last.op = "get_value"
    /\ last.in[1] = "Indirect"
    /\ last.in[2] \in DOMAIN memory
    /\ last.outcome = "panic"

---------------------------------------------------------------------------
(* Claims about execute_instruction, checked under Spec *)

\* The last call executed ADC with an addressing mode other than Immediate and Absolute
RanUnimplemented ==
    /\ last.op = "execute_instruction"
    /\ last.instr.opcode = "ADC"
    /\ last.instr.mode \notin {"Immediate", "Absolute"}

\* C16: executing ADC with an addressing mode other than Immediate or Absolute
\* is a fatal not-yet-implemented failure of that call: it does not return
\* normally.
C16_UnimplementedIsFatal ==
    RanUnimplemented => last.outcome = "panic"

\* C17: executing NOP changes nothing: every register, every status flag and
\* every memory byte is as before.
C17_NopFrame ==
    [][ last'.op = "execute_instruction" /\ last'.instr.opcode = "NOP" =>
          /\ registers' = registers
          /\ memory' = memory ]_vars

\* C17 witness: NOP executed on a machine with loaded memory, a non-zero
\* accumulator and the carry flag set
C17_Witness ==
    /\ last.op = "execute_instruction"
    /\ last.instr.opcode = "NOP"
    /\ registers.accumulator # 0
    /\ ps_carry \in registers.status
    /\ memory # Memory_new

\* The registers of the machine that differs from regs only in the
\* decimal-mode flag
DecimalTwin(regs) ==
    [regs EXCEPT !.status = IF contains(@, {ps_decimal_mode})
                            THEN Status_and(@, Status_not({ps_decimal_mode}))
                            ELSE Status_or(@, {ps_decimal_mode})]

\* C18: add_with_carry is independent of the decimal-mode flag: the machine
\* that differs only in that flag, given the same operand, ends with the same
\* accumulator and the same carry, zero, negative and overflow flags, and each
\* of the two keeps its own decimal-mode flag.  Stated as: the twin's run ends
\* in the twin of this run's end state (so the two still differ in that flag
\* only), and this run's decimal-mode flag is the one it started with.
C18_DecimalIndependence ==
    [][ RanAddWithCarry' =>
          /\ add_with_carry(DecimalTwin(registers), last'.in[3])
               = [regs |-> DecimalTwin(registers'), outcome |-> last'.outcome]
          /\ contains(registers'.status, {ps_decimal_mode})
               = contains(registers.status, {ps_decimal_mode}) ]_vars

\* C18 witness: add_with_carry returned from a machine with the decimal-mode
\* flag set and carry-in 1, leaving the non-zero binary sum a0 + operand + 1
C18_Witness ==
    /\ RanAddWithCarry
    /\ last.outcome = "ok"
    /\ contains(registers.status, {ps_decimal_mode})
    /\ last.in[2] = 1
    /\ last.in[1] + last.in[3] + 1 = registers.accumulator
    /\ registers.accumulator # 0

---------------------------------------------------------------------------
(* Runs of add_with_carry calls on one machine, as in add_with_carry_test  *)

\* The operands of the add_with_carry calls made since the machine was new or
\* reset, this call's included, if nothing else was called in between; <<>>
\* otherwise
RunAfter(value) ==
    IF last.op \in {"new", "reset"} THEN <<value>>
    ELSE IF last.op = "add_with_carry" /\ last.in[4] # <<>> THEN Append(last.in[4], value)
    ELSE <<>>

\* Machine::add_with_carry(value) as one call of a run;
\* last.in = <<a0, carry-in, operand, RunAfter(operand)>>
AddWithCarryRun(value) ==
    /\ Running
    /\ cycles < MaxCalls
    /\ LET r == add_with_carry(registers, value)
       IN  /\ registers' = r.regs
           /\ last' = Call("add_with_carry",
                           <<registers.accumulator, get_carry(registers.status), value,
                             RunAfter(value)>>,
                           NoInstruction, <<>>, r.outcome, "")
    /\ cycles' = cycles + 1
    /\ UNCHANGED memory

NextRun ==
    \/ \E value \in Operands : AddWithCarryRun(value)
    \/ \E flag \in DriverFlags : StatusRemove(flag)
    \/ \E flag \in DriverFlags : StatusInsert(flag)
    \/ Reset

SpecRun == Init /\ [][NextRun]_vars

---------------------------------------------------------------------------
(* Claims about sequences of calls *)

\* The carry, zero, negative and overflow flags of a status
AluFlagsOf(status) == status \ NonAluFlags

\* C21: in a sequence of add_with_carry calls with no flag write in between,
\* the carry-in of each call is the carry flag the previous call left; and from
\* a fresh machine, applying 1 gives accumulator 1 with carry, zero, negative
\* and overflow false, then applying -1 gives accumulator 0 with carry and zero
\* true, then applying 1 gives accumulator 2 with all four flags false.
C21_CarryChain ==
    [][ last'.op = "add_with_carry" =>
          /\ last.op = "add_with_carry" =>
               registers'.accumulator =
                   Wrapped8(registers.accumulator
                            + (IF ps_carry \in registers.status THEN 1 ELSE 0)
                            + last'.in[3])
          /\ last'.in[4] = <<1>> =>
               registers'.accumulator = 1 /\ AluFlagsOf(registers'.status) = {}
          /\ last'.in[4] = <<1, -1>> =>
               /\ registers'.accumulator = 0
               /\ AluFlagsOf(registers'.status) = {ps_carry, ps_zero}
          /\ last'.in[4] = <<1, -1, 1>> =>
               registers'.accumulator = 2 /\ AluFlagsOf(registers'.status) = {} ]_vars

\* C21 witness: a fresh machine after add_with_carry(1), add_with_carry(-1),
\* add_with_carry(1), the last call having read carry-in 1
C21_Witness ==
    /\ last.op = "add_with_carry"
    /\ last.in[4] = <<1, -1, 1>>
    /\ last.in[1] = 0
    /\ last.in[2] = 1
    /\ registers.accumulator = 2

---------------------------------------------------------------------------
(* The machine from power-on under every interleaving of its operations    *)

\* Two programs at address 0: ADC #$FF, and ADC $0001 (whose operand is the
\* program's own second byte, 1)
AdcPrograms ==
    {[a \in 0..2 |-> <<105, 255, 0>>[a + 1]], [a \in 0..2 |-> <<109, 1, 0>>[a + 1]]}

\* The loader writes one of the programs and sets the program counter to it.
LoadAdcProgram ==
    /\ Running
    /\ memory = Memory_new
    /\ memory' \in AdcPrograms
    /\ registers' = [registers EXCEPT !.program_counter = 0]
    /\ last' = Call("load", <<0>>, NoInstruction, <<>>, "ok", "")
    /\ cycles' = 0

NextMachine ==
    \/ LoadAdcProgram
    \/ PopPcInstruction
    \/ ExecuteDecoded
    \/ \E value \in Operands : AddWithCarry(value)
    \/ Reset

SpecMachine == Init /\ [][NextMachine]_vars

\* C22: in every state reachable from power-on by pop_pc_instruction,
\* execute_instruction, add_with_carry and reset steps, the zero flag and the
\* negative flag are never both set, and the zero flag is set only if the
\* accumulator is 0.
C22_ZeroNegativeInvariant ==
    /\ ~ contains(registers.status, {ps_zero, ps_negative})
    /\ contains(registers.status, {ps_zero}) => registers.accumulator = 0

\* C22 witness: a decoded ADC has just been executed on a non-zero accumulator
\* and brought it to 0 with the zero flag set
C22_Witness ==
    /\ last.op = "execute_instruction"
    /\ last.instr.opcode = "ADC"
    /\ registers.program_counter # 0
    /\ last.in[1] # 0
    /\ registers.accumulator = 0
    /\ contains(registers.status, {ps_zero})

====
